---------------------------- MODULE Spec2Model ----------------------------
(***************************************************************************)
(* Model of the CDN of marwiz108/CDN: the HTTP cache-proxy                 *)
(* (src/httpserver.py) and the DNS responder (src/dnsserver.py).           *)
(*                                                                         *)
(* Strings (paths, content keys, DNS names) are sequences of one-character *)
(* strings, so that split('/'), str(qname) and [:-1] are computed.         *)
(* A byte string (an HTTP payload) is a sequence of segments               *)
(*   [k |-> "rep", s |-> b, n |-> c]   the byte b repeated c times         *)
(*   [k |-> "lit", s |-> i, n |-> c]   c bytes of incompressible data i    *)
(* which lets payloads of millions of bytes be written down.               *)
(***************************************************************************)
EXTENDS Integers, Sequences, FiniteSets, TLC

(***************************************************************************)
(* Bounds of the model                                                     *)
(***************************************************************************)
MaxKeys == 2

(***************************************************************************)
(* Constants of src/httpserver.py                                          *)
(***************************************************************************)
CACHE_LIMIT == 20000000
ORIGIN_PORT == 8080
DEFAULT_ORIGIN == "cs5700cdnorigin.ccs.neu.edu"
HEALTH_PATH == <<"/","g","r","a","d","i","n","g","/","b","e","a","c","o","n">>

(* sys.getsizeof of CPython 3.11 (64-bit): the empty dict, a dict of 1..5  *)
(* and of 6..10 entries, the header of a bytes and of an ASCII str object. *)
DICT_EMPTY == 64
DICT_SMALL == 184
DICT_MEDIUM == 272
BYTES_OVERHEAD == 33
STR_OVERHEAD == 49

(* zlib: 2 bytes of header and 4 of Adler-32 trailer; incompressible data  *)
(* is emitted in stored blocks of at most 16383 bytes with a 5 byte header *)
(* each; a run costs about one byte per 1024 repeated bytes.               *)
ZLIB_FRAME == 6
STORED_BLOCK == 16383
STORED_HEADER == 5
RUN_BASE == 3
RUN_UNIT == 1024

(***************************************************************************)
(* Byte strings                                                            *)
(***************************************************************************)
CeilDiv(a, d) == (a + d - 1) \div d

(* zlib.compress: every segment becomes one block, a stored block for      *)
(* incompressible data and a match block for a run.                        *)
CompressSeg(seg) ==
    IF seg.k = "lit"
    THEN [t |-> "stored", s |-> seg.s, n |-> seg.n,
          cost |-> seg.n + STORED_HEADER * CeilDiv(seg.n, STORED_BLOCK)]
    ELSE [t |-> "match", s |-> seg.s, n |-> seg.n,
          cost |-> RUN_BASE + seg.n \div RUN_UNIT]

zlib_compress(b) == [z |-> TRUE, blocks |-> [i \in 1..Len(b) |-> CompressSeg(b[i])]]

DecompressBlock(blk) ==
    [k |-> IF blk.t = "stored" THEN "lit" ELSE "rep", s |-> blk.s, n |-> blk.n]

zlib_decompress(c) == [i \in 1..Len(c.blocks) |-> DecompressBlock(c.blocks[i])]

(* len() of a compressed bytes object *)
RECURSIVE BlocksCost(_)
BlocksCost(bs) == IF bs = <<>> THEN 0 ELSE Head(bs).cost + BlocksCost(Tail(bs))

CompressedLen(c) == ZLIB_FRAME + BlocksCost(c.blocks)

(***************************************************************************)
(* Strings                                                                 *)
(***************************************************************************)
(* str.split(sep) *)
RECURSIVE Split(_, _)
Split(s, sep) ==
    IF \A i \in 1..Len(s) : s[i] # sep
    THEN <<s>>
    ELSE LET i == CHOOSE i \in 1..Len(s) :
                     s[i] = sep /\ \A j \in 1..(i-1) : s[j] # sep
         IN <<SubSeq(s, 1, i-1)>> \o Split(SubSeq(s, i+1, Len(s)), sep)

Last(q) == q[Len(q)]

(***************************************************************************)
(* Size accounting: CacheManager.get_cache_size applied to self.CACHE.     *)
(* Every key and every stored value of the cache is an object of its own,  *)
(* so the visited set never suppresses a term.                             *)
(***************************************************************************)
DictSizeof(n) == IF n = 0 THEN DICT_EMPTY
                 ELSE IF n <= 5 THEN DICT_SMALL ELSE DICT_MEDIUM

BytesSizeof(c) == BYTES_OVERHEAD + CompressedLen(c)

StrSizeof(k) == STR_OVERHEAD + Len(k)

RECURSIVE SumValues(_, _)
SumValues(cache, keys) ==
    IF keys = {} THEN 0
    ELSE LET k == CHOOSE k \in keys : TRUE
         IN BytesSizeof(cache[k]) + SumValues(cache, keys \ {k})

RECURSIVE SumKeys(_)
SumKeys(keys) ==
    IF keys = {} THEN 0
    ELSE LET k == CHOOSE k \in keys : TRUE
         IN StrSizeof(k) + SumKeys(keys \ {k})

get_cache_size(cache) ==
    DictSizeof(Cardinality(DOMAIN cache))
      + SumValues(cache, DOMAIN cache) + SumKeys(DOMAIN cache)

(***************************************************************************)
(* The origin                                                              *)
(***************************************************************************)
Keys == {<<"D">>, <<"C">>}

Hosts == {DEFAULT_ORIGIN, "origin.example.org"}

SmallBody == <<[k |-> "rep", s |-> 97, n |-> 140]>>
MixedBody == <<[k |-> "rep", s |-> 98, n |-> 90], [k |-> "lit", s |-> 1, n |-> 50]>>
HalfBody == <<[k |-> "lit", s |-> 2, n |-> 9000000]>>
EdgeBody == <<[k |-> "lit", s |-> 3, n |-> 19993700]>>
HugeBody == <<[k |-> "lit", s |-> 4, n |-> 25000000]>>

Bodies == {SmallBody, MixedBody, HalfBody, EdgeBody, HugeBody}

NotFoundPage == <<[k |-> "lit", s |-> 5, n |-> 200]>>

(* what one requests.get can produce: a response or a RequestException *)
Outcomes ==
    [raised : {FALSE}, status_code : {200}, content : Bodies]
      \cup [raised : {FALSE}, status_code : {404, 500}, content : {NotFoundPage}]
      \cup [raised : {TRUE}, status_code : {0}, content : {<<>>}]

(* the answers the origin gives while requests are served *)
LiveOutcomes == {o \in Outcomes : o.content \in {SmallBody, NotFoundPage, <<>>}}

(* the outcome written down where no GET is made *)
NoOutcome == [raised |-> FALSE, status_code |-> 404, content |-> NotFoundPage]

(* utils.build_request_URL: http://<origin-host>:<origin-port>/<content-key> *)
build_request_URL(host, port, query) == [host |-> host, port |-> port, key |-> query]

(***************************************************************************)
(* State of the HTTP cache-proxy process                                   *)
(***************************************************************************)
VARIABLES
    pc,               \* position of the process: import, loading, main, start, serving, crashed
    args,             \* the -o argument of this run
    origin_hostname,  \* the module global
    csv,              \* first column of pageviews_dump.csv, in file order
    idx,              \* row the loader's for loop is at
    CACHE,            \* cm.CACHE: content key -> compressed payload
    preload,          \* the loader's origin fetches so far, in order
    loaded,           \* content key -> the origin payload that was compressed into its entry
    loadRuns,         \* calls of load_popularity_data so far
    stopped,          \* the loader left its loop through break
    req,              \* the last request do_GET handled and what it wrote
    failedBefore,     \* a request before the last one ended with do_GET raising
    dnsPc,            \* the DNS responder: recv (in its loop), crashed, off (not started)
    NAME,             \* the configured service name (-n)
    rcvd,             \* the last datagram recvfrom returned
    outbox,           \* the datagrams sendto sent for it
    heap,             \* objects by identity, for get_cache_size on any mapping
    measured          \* what get_cache_size returned for the mapping heap[1]

httpVars == <<pc, args, origin_hostname, csv, idx, CACHE, preload, loaded,
              loadRuns, stopped, req, failedBefore>>

dnsVars == <<dnsPc, NAME, rcvd, outbox>>

sizeVars == <<heap, measured>>

vars == <<httpVars, dnsVars, sizeVars>>

NoReq == [path |-> <<>>, sent |-> <<>>, origin |-> <<>>, raised |-> FALSE, handled |-> FALSE,
          steps |-> <<>>,
          outcome |-> [raised |-> FALSE, status_code |-> 0, content |-> <<>>]]

EmptyMap == [k \in {} |-> <<>>]

KeyLists == UNION {[1..n -> Keys] : n \in 0..MaxKeys}

NoDatagram == [data |-> <<>>, addr |-> <<>>, seen |-> FALSE]

NotMeasured == [done |-> FALSE, size |-> 0]

(* get_cache_size is not being tried on a heap of its own *)
SizeOff ==
    /\ heap = << >>
    /\ measured = NotMeasured

(* the DNS responder is another program: it is not running *)
DnsOff ==
    /\ dnsPc = "off"
    /\ NAME = <<>>
    /\ rcvd = NoDatagram
    /\ outbox = <<>>

Init ==
    /\ DnsOff
    /\ SizeOff
    /\ pc = "import"
    /\ args \in Hosts
    /\ origin_hostname = DEFAULT_ORIGIN
    /\ csv \in KeyLists
    /\ idx = 1
    /\ CACHE = EmptyMap
    /\ preload = <<>>
    /\ loaded = EmptyMap
    /\ loadRuns = 0
    /\ stopped = FALSE
    /\ req = NoReq
    /\ failedBefore = FALSE


(***************************************************************************)
(* Startup: the class body of CDNHTTPRequestHandler runs cm = CacheManager()*)
(* when the module is loaded; __init__ creates the empty CACHE and calls   *)
(* load_popularity_data once.                                              *)
(***************************************************************************)
ClassBody ==
    /\ pc = "import"
    /\ pc' = "loading"
    /\ CACHE' = EmptyMap
    /\ loadRuns' = loadRuns + 1
    /\ UNCHANGED <<args, origin_hostname, csv, idx, preload, loaded, stopped, req,
                   failedBefore>>
    /\ UNCHANGED <<dnsVars, sizeVars>>

(* a store that keeps the entry a key already has *)
CacheStore_keepfirst(cache, query, compressed_response) ==
    cache @@ (query :> compressed_response)

(* self.CACHE[query] = compressed_response *)
CacheStore(cache, query, compressed_response) ==
    (query :> compressed_response) @@ cache

(* the guard of the break *)
Overloads(cache, compressed_response) ==
    get_cache_size(cache) + CompressedLen(compressed_response) > CACHE_LIMIT

(* a loader that gives up at the first key the origin does not have *)
SkipKey_stop ==
    /\ pc' = "main"
    /\ stopped' = TRUE
    /\ UNCHANGED <<idx, CACHE, loaded>>

(* the status is not 200: nothing is stored and the loop goes on *)
SkipKey ==
    /\ idx' = idx + 1
    /\ UNCHANGED <<pc, CACHE, loaded, stopped>>

(* One iteration of the for loop of load_popularity_data, the origin       *)
(* answering its GET with out.                                             *)
LoadStep(out) ==
    /\ pc = "loading"
    /\ idx <= Len(csv)
    /\ IF get_cache_size(CACHE) < CACHE_LIMIT
       THEN LET query == csv[idx]
                origin_request_url == build_request_URL(origin_hostname, ORIGIN_PORT, query)
                fetch == [row |-> idx, url |-> origin_request_url, raised |-> out.raised,
                          status_code |-> out.status_code, content |-> out.content]
                compressed_response == zlib_compress(out.content)
            IN /\ preload' = Append(preload, fetch)
               /\ IF out.raised
                  THEN \* requests.get raises: nothing catches it, the import fails
                       /\ pc' = "crashed"
                       /\ UNCHANGED <<idx, CACHE, loaded, stopped>>
                  ELSE IF out.status_code = 200
                  THEN IF Overloads(CACHE, compressed_response)
                       THEN \* break: the loader returns and the module goes on
                            /\ pc' = "main"
                            /\ stopped' = TRUE
                            /\ UNCHANGED <<idx, CACHE, loaded>>
                       ELSE /\ CACHE' = CacheStore(CACHE, query, compressed_response)
                            /\ loaded' = (query :> out.content) @@ loaded
                            /\ idx' = idx + 1
                            /\ UNCHANGED <<pc, stopped>>
                  ELSE SkipKey
       ELSE \* the cache is full: the row is read and nothing is fetched
            /\ out = NoOutcome
            /\ idx' = idx + 1
            /\ UNCHANGED <<pc, CACHE, preload, loaded, stopped>>
    /\ UNCHANGED <<args, origin_hostname, csv, loadRuns, req, failedBefore>>
    /\ UNCHANGED <<dnsVars, sizeVars>>

(* the reader is exhausted: load_popularity_data and __init__ return *)
LoadReturn ==
    /\ pc = "loading"
    /\ idx > Len(csv)
    /\ pc' = "main"
    /\ UNCHANGED <<args, origin_hostname, csv, idx, CACHE, preload, loaded,
                   loadRuns, stopped, req, failedBefore>>
    /\ UNCHANGED <<dnsVars, sizeVars>>

(* __main__: the arguments are parsed and the globals assigned *)
Main ==
    /\ pc = "main"
    /\ origin_hostname' = args
    /\ pc' = "start"
    /\ UNCHANGED <<args, csv, idx, CACHE, preload, loaded, loadRuns, stopped, req,
                   failedBefore>>
    /\ UNCHANGED <<dnsVars, sizeVars>>

(* a server started while the loader is still in its loop *)
start_CDN_server_early ==
    /\ pc \in {"loading", "start"}
    /\ pc' = "serving"
    /\ UNCHANGED <<args, origin_hostname, csv, idx, CACHE, preload, loaded,
                   loadRuns, stopped, req, failedBefore>>
    /\ UNCHANGED <<dnsVars, sizeVars>>

(* start_CDN_server: HTTPServer(...).serve_forever() *)
start_CDN_server ==
    /\ pc = "start"
    /\ pc' = "serving"
    /\ UNCHANGED <<args, origin_hostname, csv, idx, CACHE, preload, loaded,
                   loadRuns, stopped, req, failedBefore>>
    /\ UNCHANGED <<dnsVars, sizeVars>>

(***************************************************************************)
(* do_GET                                                                  *)
(***************************************************************************)
Paths == { <<"/","D">>, <<"/","C">>, <<"/","x","/","D">>, <<"/","E">>, HEALTH_PATH }

(* the body the 204 branch writes: 'Response code: NO CONTENT(204)' *)
BeaconBody == <<[k |-> "lit", s |-> 6, n |-> 30]>>

(* the page send_error writes *)
ErrorPage(code) == <<[k |-> "lit", s |-> code, n |-> 400]>>

Response(status, body) == [status |-> status, body |-> body]

(* a hit branch that writes only the first block of the entry *)
HitBranch_truncated(path, bad, cached_response) ==
    [path |-> path,
     sent |-> Append(bad, Response(200, SubSeq(zlib_decompress(cached_response), 1, 1))),
     origin |-> <<>>, raised |-> FALSE, handled |-> TRUE]

(* the cache hit branch: decompress the entry and send it *)
HitBranch(path, bad, cached_response) ==
    [path |-> path,
     sent |-> Append(bad, Response(200, zlib_decompress(cached_response))),
     origin |-> <<>>, raised |-> FALSE, handled |-> TRUE]

(* a miss branch that relays whatever status the origin gave *)
MissBranch_relay(path, bad, origin_request_url, out) ==
    [path |-> path,
     sent |-> IF out.raised THEN bad
              ELSE Append(bad, Response(out.status_code, out.content)),
     origin |-> <<origin_request_url>>, raised |-> out.raised, handled |-> TRUE]

(* a miss branch that answers 404 where the origin cannot be reached *)
MissBranch_recover(path, bad, origin_request_url, out) ==
    IF out.raised \/ out.status_code # 200
    THEN [path |-> path, sent |-> Append(bad, Response(404, ErrorPage(404))),
          origin |-> <<origin_request_url>>, raised |-> FALSE, handled |-> TRUE]
    ELSE [path |-> path, sent |-> Append(bad, Response(200, out.content)),
          origin |-> <<origin_request_url>>, raised |-> FALSE, handled |-> TRUE]

(* the cache miss branch: one GET to the origin, relayed or turned into 404 *)
MissBranch(path, bad, origin_request_url, out) ==
    IF out.raised
    THEN [path |-> path, sent |-> bad, origin |-> <<origin_request_url>>,
          raised |-> TRUE, handled |-> TRUE]
    ELSE IF out.status_code # 200
    THEN [path |-> path, sent |-> Append(bad, Response(404, ErrorPage(404))),
          origin |-> <<origin_request_url>>, raised |-> FALSE, handled |-> TRUE]
    ELSE [path |-> path, sent |-> Append(bad, Response(200, out.content)),
          origin |-> <<origin_request_url>>, raised |-> FALSE, handled |-> TRUE]

(* a health-check branch that answers like a page *)
BeaconBranch_ok(path) ==
    [path |-> path, sent |-> <<Response(200, BeaconBody)>>, origin |-> <<>>,
     raised |-> FALSE, handled |-> TRUE,
     steps |-> <<[op |-> "send_response", arg |-> 200], [op |-> "write", arg |-> BeaconBody]>>]

(* the health-check branch: send_response(204), then wfile.write *)
BeaconBranch(path) ==
    [path |-> path, sent |-> <<Response(204, BeaconBody)>>, origin |-> <<>>,
     raised |-> FALSE, handled |-> TRUE,
     steps |-> <<[op |-> "send_response", arg |-> 204], [op |-> "write", arg |-> BeaconBody]>>]

(* the validation of the path: send_error(400) on more than two pieces *)
ValidatePath(path) ==
    IF Len(Split(path, "/")) > 2 THEN <<Response(400, ErrorPage(400))>> ELSE <<>>

(* the calls a response is written with *)
SendSteps(response) ==
    IF response.status = 200
    THEN <<[op |-> "send_response", arg |-> 200], [op |-> "write", arg |-> response.body]>>
    ELSE <<[op |-> "send_error", arg |-> response.status]>>

RECURSIVE AllSendSteps(_)
AllSendSteps(responses) ==
    IF responses = <<>> THEN <<>>
    ELSE SendSteps(Head(responses)) \o AllSendSteps(Tail(responses))

(* the calls of one do_GET in the order it makes them: the validation, the *)
(* lookup in cm.CACHE, then the branch taken                               *)
HandlerSteps(bad, query, branch) ==
    AllSendSteps(bad)
      \o <<[op |-> "lookup", arg |-> query]>>
      \o (IF branch.origin = <<>> THEN <<>>
          ELSE <<[op |-> "get", arg |-> branch.origin[1]]>>)
      \o AllSendSteps(SubSeq(branch.sent, Len(bad) + 1, Len(branch.sent)))

(* a handler that returns once it has sent the 400 *)
do_GET_result_strict(path, cache, host, out) ==
    IF path = HEALTH_PATH
    THEN BeaconBranch(path)
    ELSE LET bad == ValidatePath(path)
             query == Last(Split(path, "/"))
             branch == IF query \in DOMAIN cache
                       THEN HitBranch(path, bad, cache[query])
                       ELSE MissBranch(path, bad, build_request_URL(host, 8080, query), out)
         IN IF bad # <<>>
            THEN [path |-> path, sent |-> bad, origin |-> <<>>, raised |-> FALSE,
                  handled |-> TRUE, steps |-> AllSendSteps(bad)]
            ELSE branch @@ [steps |-> HandlerSteps(bad, query, branch)]

(* What one do_GET writes to the client and asks of the origin, the origin *)
(* answering a GET (if one is made) with out.                              *)
do_GET_result(path, cache, host, out) ==
    IF path = HEALTH_PATH
    THEN BeaconBranch(path)
    ELSE LET bad == ValidatePath(path)
             query == Last(Split(path, "/"))
             branch == IF query \in DOMAIN cache
                       THEN HitBranch(path, bad, cache[query])
                       ELSE MissBranch(path, bad, build_request_URL(host, 8080, query), out)
         IN branch @@ [steps |-> HandlerSteps(bad, query, branch)]

(* a handler that keeps what it fetched on a miss *)
do_GET_caching(path, out) ==
    /\ pc = "serving"
    /\ LET result == do_GET_result(path, CACHE, origin_hostname, out)
       IN /\ result.origin = <<>> => out = NoOutcome
          /\ req' = result @@ [outcome |-> out]
          /\ failedBefore' = (failedBefore \/ req.raised)
          /\ CACHE' = IF result.origin # <<>> /\ ~out.raised /\ out.status_code = 200
                      THEN (Last(Split(path, "/")) :> zlib_compress(out.content)) @@ CACHE
                      ELSE CACHE
    /\ UNCHANGED <<pc, args, origin_hostname, csv, idx, preload, loaded,
                   loadRuns, stopped>>
    /\ UNCHANGED <<dnsVars, sizeVars>>

(* One request: the server hands it to do_GET; an exception do_GET raises  *)
(* is caught by the server's request loop, which goes on serving.          *)
do_GET(path, out) ==
    /\ pc = "serving"
    /\ LET result == do_GET_result(path, CACHE, origin_hostname, out)
       IN /\ result.origin = <<>> => out = NoOutcome
          /\ req' = result @@ [outcome |-> out]
          /\ failedBefore' = (failedBefore \/ req.raised)
    /\ UNCHANGED <<pc, args, origin_hostname, csv, idx, CACHE, preload, loaded,
                   loadRuns, stopped>>
    /\ UNCHANGED <<dnsVars, sizeVars>>

(***************************************************************************)
(* The DNS responder (src/dnsserver.py)                                    *)
(*                                                                         *)
(* A DNS name is a sequence of labels, a label a sequence of characters.   *)
(* A datagram is the sequence                                              *)
(*   id, qr, aa, ra, qdcount, ancount, <name>, qtype, qclass               *)
(*   [, <name>, rtype, rclass, ttl, rdlength, 4 octets]                    *)
(* where <name> is every label preceded by its length, then 0.             *)
(***************************************************************************)
RECURSIVE EncodeName(_)
EncodeName(labels) ==
    IF labels = <<>> THEN <<0>>
    ELSE <<Len(Head(labels))>> \o Head(labels) \o EncodeName(Tail(labels))

(* the name that starts at w[p]: its labels and the position after it *)
RECURSIVE DecodeName(_, _)
DecodeName(w, p) ==
    IF p > Len(w) THEN [ok |-> FALSE, labels |-> <<>>, next |-> p]
    ELSE IF w[p] = 0 THEN [ok |-> TRUE, labels |-> <<>>, next |-> p + 1]
    ELSE IF p + w[p] > Len(w) THEN [ok |-> FALSE, labels |-> <<>>, next |-> p]
    ELSE LET rest == DecodeName(w, p + w[p] + 1)
         IN [ok |-> rest.ok,
             labels |-> <<SubSeq(w, p + 1, p + w[p])>> \o rest.labels,
             next |-> rest.next]

(* DNSRecord.pack *)
PackRR(rr) ==
    EncodeName(rr.rname) \o <<rr.rtype, rr.rclass, rr.ttl, Len(rr.rdata)>> \o rr.rdata

pack(rec) ==
    <<rec.id, rec.qr, rec.aa, rec.ra, 1, Len(rec.rr)>>
      \o EncodeName(rec.q.qname) \o <<rec.q.qtype, rec.q.qclass>>
      \o (IF rec.rr = <<>> THEN <<>> ELSE PackRR(rec.rr[1]))

(* DNSRecord.parse: ok is FALSE where dnslib raises DNSError *)
ParseFailure ==
    [ok |-> FALSE, id |-> 0, qr |-> 0, aa |-> 0, ra |-> 0,
     q |-> [qname |-> <<>>, qtype |-> 0, qclass |-> 0], rr |-> <<>>]

ParseRR(w, p) ==
    LET nm == DecodeName(w, p)
        e == nm.next
    IN IF ~nm.ok \/ e + 3 > Len(w) \/ e + 3 + w[e + 3] > Len(w)
       THEN [ok |-> FALSE, rr |-> <<>>]
       ELSE [ok |-> TRUE,
             rr |-> <<[rname |-> nm.labels, rtype |-> w[e], rclass |-> w[e + 1],
                       ttl |-> w[e + 2],
                       rdata |-> SubSeq(w, e + 4, e + 3 + w[e + 3])]>>]

parse(w) ==
    IF Len(w) < 6 THEN ParseFailure
    ELSE LET nm == DecodeName(w, 7)
             e == nm.next
         IN IF ~nm.ok \/ e + 1 > Len(w) THEN ParseFailure
            ELSE LET ans == IF w[6] = 0 THEN [ok |-> TRUE, rr |-> <<>>]
                            ELSE ParseRR(w, e + 2)
                 IN IF ~ans.ok THEN ParseFailure
                    ELSE [ok |-> TRUE, id |-> w[1], qr |-> w[2], aa |-> w[3],
                          ra |-> w[4],
                          q |-> [qname |-> nm.labels, qtype |-> w[e],
                                 qclass |-> w[e + 1]],
                          rr |-> ans.rr]

(* str() of a DNS name: the labels, each followed by a dot; the root is "." *)
RECURSIVE JoinLabels(_)
JoinLabels(labels) ==
    IF labels = <<>> THEN <<>>
    ELSE Head(labels) \o <<".">> \o JoinLabels(Tail(labels))

LabelStr(labels) == IF labels = <<>> THEN <<".">> ELSE JoinLabels(labels)

(* s[:-1] *)
DropLast(s) == SubSeq(s, 1, Len(s) - 1)

(* the response record parse_dig_query builds *)
BuildResponse_defaults(dig_query, addr) ==
    [id |-> dig_query.id, qr |-> 1, aa |-> 1, ra |-> 1,
     q |-> [qname |-> dig_query.q.qname, qtype |-> 1, qclass |-> 1],
     rr |-> <<[rname |-> dig_query.q.qname, rtype |-> 1, rclass |-> 1,
               ttl |-> 0, rdata |-> addr[1]]>>]

(* a response that answers with an address of the responder's own *)
BuildResponse_fixed(dig_query, addr) ==
    [id |-> dig_query.id, qr |-> 1, aa |-> 1, ra |-> 1,
     q |-> [qname |-> dig_query.q.qname, qtype |-> dig_query.q.qtype,
            qclass |-> dig_query.q.qclass],
     rr |-> <<[rname |-> dig_query.q.qname, rtype |-> 1, rclass |-> 1,
               ttl |-> 0, rdata |-> <<127, 0, 0, 1>>]>>]

BuildResponse(dig_query, addr) ==
    [id |-> dig_query.id, qr |-> 1, aa |-> 1, ra |-> 1,
     q |-> [qname |-> dig_query.q.qname, qtype |-> dig_query.q.qtype,
            qclass |-> dig_query.q.qclass],
     rr |-> <<[rname |-> dig_query.q.qname, rtype |-> 1, rclass |-> 1,
               ttl |-> 0, rdata |-> addr[1]]>>]

(* the condition under which parse_dig_query returns the response *)
IsServiceQuery_either(question_type, question_name, name) ==
    question_type = 1 \/ DropLast(LabelStr(question_name)) = name

IsServiceQuery(question_type, question_name, name) ==
    question_type = 1 /\ DropLast(LabelStr(question_name)) = name

(* DNSServer.parse_dig_query: the packed response, or None *)
parse_dig_query(data, addr, name) ==
    LET dig_query == parse(data)
        question_name == dig_query.q.qname
        question_type == dig_query.q.qtype
        response == BuildResponse(dig_query, addr)
    IN IF IsServiceQuery(question_type, question_name, name)
       THEN [none |-> FALSE, data |-> pack(response)]
       ELSE [none |-> TRUE, data |-> <<>>]

ServiceNames == { <<"a", ".", "b">>, <<"c">> }

QueryNames == { <<<<"a">>, <<"b">>>>, <<<<"a">>, <<"c">>>>, <<<<"A">>, <<"b">>>>,
                <<<<"c">>>>, <<>> }

Clients == { <<<<10, 0, 0, 1>>, 5353>>, <<<<192, 168, 1, 7>>, 40000>> }

Query(id, qname, qtype, qclass) ==
    [id |-> id, qr |-> 0, aa |-> 0, ra |-> 0,
     q |-> [qname |-> qname, qtype |-> qtype, qclass |-> qclass], rr |-> <<>>]

(* the datagrams that arrive: well-formed queries and a truncated one *)
Datagrams ==
    {pack(Query(id, qname, qtype, qclass)) :
        id \in {7, 9}, qname \in QueryNames, qtype \in {1, 28}, qclass \in {1, 3}}
      \cup { <<7, 0>> }

DnsInit ==
    /\ dnsPc = "recv"
    /\ NAME \in ServiceNames
    /\ rcvd = NoDatagram
    /\ outbox = <<>>

(* One iteration of the loop of DNSServer.run: recvfrom, parse_dig_query,  *)
(* sendto.  A parse error, and sendto given None, raise out of run.        *)
run(data, addr) ==
    /\ dnsPc = "recv"
    /\ rcvd' = [data |-> data, addr |-> addr, seen |-> TRUE]
    /\ IF ~parse(data).ok
       THEN /\ dnsPc' = "crashed"
            /\ outbox' = <<>>
       ELSE LET dig_response == parse_dig_query(data, addr, NAME)
            IN IF dig_response.none
               THEN \* sendto(None, addr): TypeError
                    /\ dnsPc' = "crashed"
                    /\ outbox' = <<>>
               ELSE /\ dnsPc' = "recv"
                    /\ outbox' = <<[data |-> dig_response.data, to |-> addr]>>
    /\ UNCHANGED <<NAME, httpVars, sizeVars>>

Next ==
    \/ ClassBody
    \/ \E out \in Outcomes : LoadStep(out)
    \/ LoadReturn
    \/ Main
    \/ start_CDN_server
    \/ \E path \in Paths, out \in LiveOutcomes : do_GET(path, out)

Spec == Init /\ [][Next]_vars

(* the DNS responder alone *)
InitDNS ==
    /\ DnsInit
    /\ SizeOff
    /\ pc = "off"
    /\ args = DEFAULT_ORIGIN
    /\ origin_hostname = DEFAULT_ORIGIN
    /\ csv = <<>>
    /\ idx = 1
    /\ CACHE = EmptyMap
    /\ preload = <<>>
    /\ loaded = EmptyMap
    /\ loadRuns = 0
    /\ stopped = FALSE
    /\ req = NoReq
    /\ failedBefore = FALSE

NextDNS == \E data \in Datagrams, addr \in Clients : run(data, addr)

SpecDNS == InitDNS /\ [][NextDNS]_vars


(***************************************************************************)
(* CacheManager.get_cache_size on any mapping.                             *)
(*                                                                         *)
(* A heap maps an object identity (id(obj)) to the object: a str or bytes  *)
(* of a length, a list of item identities, or a dict of key and value      *)
(* identities in insertion order.  heap[1] is the mapping measured.        *)
(***************************************************************************)
MaxObjs == 3

LIST_EMPTY == 56
LIST_ITEM == 8

ObjIds == 1..MaxObjs

Leaves == { [type |-> "str", len |-> 1], [type |-> "bytes", len |-> 5] }

(* the item lists of a list object: up to two items, an object twice too *)
ItemLists ==
    { <<>> } \cup { <<a>> : a \in ObjIds }
      \cup { it \in ObjIds \X ObjIds : it[1] <= it[2] }

Lists == { [type |-> "list", items |-> it] : it \in ItemLists }

(* the entries of the mapping: up to two keys, each with a value *)
Dicts ==
    { [type |-> "dict", keys |-> <<>>, vals |-> <<>>] }
      \cup { [type |-> "dict", keys |-> <<k>>, vals |-> <<v>>] :
               k \in ObjIds \ {1}, v \in ObjIds }
      \cup { [type |-> "dict", keys |-> ks, vals |-> vs] :
               ks \in {p \in ObjIds \X ObjIds : 1 < p[1] /\ p[1] < p[2]},
               vs \in ObjIds \X ObjIds }

(* a heap Python can build: the keys of the mapping are hashable objects   *)
(* (str, bytes) that are not equal to one another                          *)
Hashable(d, rest) ==
    /\ \A i \in 1..Len(d.keys) : rest[d.keys[i]].type # "list"
    /\ Len(d.keys) = 2 => rest[d.keys[1]] # rest[d.keys[2]]

(* the heaps over the identities ids: the mapping at identity 1, strings,  *)
(* bytes and lists at the others                                           *)
Heaps(ids) ==
    UNION { { (1 :> d) @@ rest : d \in {m \in Dicts : Hashable(m, rest)} } :
              rest \in [ids \ {1} -> Leaves \cup Lists] }

(* sys.getsizeof *)
Sizeof(obj) ==
    IF obj.type = "dict" THEN DictSizeof(Len(obj.keys))
    ELSE IF obj.type = "list" THEN LIST_EMPTY + LIST_ITEM * Len(obj.items)
    ELSE IF obj.type = "bytes" THEN BYTES_OVERHEAD + obj.len
    ELSE STR_OVERHEAD + obj.len

RECURSIVE get_cache_size_rec(_, _, _)
RECURSIVE SumSizes_copied(_, _, _)
RECURSIVE SumSizes(_, _, _)

(* a sum whose calls each get a copy of the visited set *)
SumSizes_copied(h, ids, seen) ==
    IF ids = <<>> THEN [size |-> 0, seen |-> seen]
    ELSE LET first == get_cache_size_rec(h, Head(ids), seen)
             rest == SumSizes_copied(h, Tail(ids), seen)
         IN [size |-> first.size + rest.size, seen |-> first.seen \cup rest.seen]

(* sum([self.get_cache_size(i, seen) for i in ...]): the calls are made in *)
(* order and share the one visited set                                     *)
SumSizes(h, ids, seen) ==
    IF ids = <<>> THEN [size |-> 0, seen |-> seen]
    ELSE LET first == get_cache_size_rec(h, Head(ids), seen)
             rest == SumSizes(h, Tail(ids), first.seen)
         IN [size |-> first.size + rest.size, seen |-> rest.seen]

(* get_cache_size(obj, seen): what it returns and the visited set it leaves *)
get_cache_size_rec(h, obj_id, seen) ==
    IF obj_id \in seen THEN [size |-> 0, seen |-> seen]
    ELSE LET obj == h[obj_id]
             marked == seen \cup {obj_id}
         IN IF obj.type = "dict"
            THEN LET values == SumSizes(h, obj.vals, marked)
                     keys == SumSizes(h, obj.keys, values.seen)
                 IN [size |-> Sizeof(obj) + values.size + keys.size, seen |-> keys.seen]
            ELSE IF obj.type = "list"
            THEN LET items == SumSizes(h, obj.items, marked)
                 IN [size |-> Sizeof(obj) + items.size, seen |-> items.seen]
            ELSE [size |-> Sizeof(obj), seen |-> marked]

SizeInit ==
    /\ heap \in Heaps(ObjIds)
    /\ measured = NotMeasured

(* get_cache_size(mapping) is called, seen being None *)
Measure ==
    /\ ~measured.done
    /\ measured' = [done |-> TRUE, size |-> get_cache_size_rec(heap, 1, {}).size]
    /\ UNCHANGED <<heap, httpVars, dnsVars>>

InitSize ==
    /\ SizeInit
    /\ DnsOff
    /\ pc = "off"
    /\ args = DEFAULT_ORIGIN
    /\ origin_hostname = DEFAULT_ORIGIN
    /\ csv = <<>>
    /\ idx = 1
    /\ CACHE = EmptyMap
    /\ preload = <<>>
    /\ loaded = EmptyMap
    /\ loadRuns = 0
    /\ stopped = FALSE
    /\ req = NoReq
    /\ failedBefore = FALSE

NextSize == Measure

SpecSize == InitSize /\ [][NextSize]_vars

(***************************************************************************)
(* Properties                                                              *)
(***************************************************************************)
LoadFinished == pc \in {"main", "start", "serving"}

ContentKey(path) == Last(Split(path, "/"))

IsHit == req.handled /\ req.path # HEALTH_PATH /\ ContentKey(req.path) \in DOMAIN CACHE

IsMiss == req.handled /\ req.path # HEALTH_PATH /\ ContentKey(req.path) \notin DOMAIN CACHE

(* C1: when load_popularity_data has finished, get_cache_size(CACHE) is at *)
(* most CACHE_LIMIT.                                                       *)
C1_SizeWithinLimit == LoadFinished => get_cache_size(CACHE) <= CACHE_LIMIT

(* C2: a key fetched with status 200 whose inclusion would make the        *)
(* measured size of the cache exceed CACHE_LIMIT is not inserted and stops *)
(* the load, and once the load has stopped nothing more is fetched or      *)
(* inserted.                                                               *)
C2_StopsAtFirstOverBudget ==
    [][ /\ ( /\ pc = "loading"
             /\ Len(preload') = Len(preload) + 1
             /\ ~Last(preload').raised
             /\ Last(preload').status_code = 200
             /\ get_cache_size(CacheStore(CACHE, Last(preload').url.key,
                                          zlib_compress(Last(preload').content)))
                  > CACHE_LIMIT )
           => (CACHE' = CACHE /\ stopped')
        /\ stopped => (preload' = preload /\ CACHE' = CACHE) ]_vars

(* C3: a received query of type 1 whose name, its trailing dot stripped,   *)
(* is NAME gets exactly one reply, with the id and the question (name,     *)
(* type, class) of the query.                                              *)
C3_MatchingQueryAnswered ==
    LET query == parse(rcvd.data)
    IN ( /\ rcvd.seen
         /\ query.ok
         /\ query.q.qtype = 1
         /\ DropLast(LabelStr(query.q.qname)) = NAME )
       => /\ Len(outbox) = 1
          /\ outbox[1].to = rcvd.addr
          /\ parse(outbox[1].data).ok
          /\ parse(outbox[1].data).id = query.id
          /\ parse(outbox[1].data).q = query.q

C3_Witness ==
    /\ rcvd.seen
    /\ parse(rcvd.data).ok
    /\ parse(rcvd.data).q = [qname |-> <<<<"a">>, <<"b">>>>, qtype |-> 1, qclass |-> 3]
    /\ NAME = <<"a", ".", "b">>
    /\ Len(outbox) = 1

(* C4: a datagram is sent in reply to a received query if and only if the  *)
(* query's type is 1 and its name, trailing dot stripped, is NAME.         *)
C4_ReplyIffMatch ==
    LET query == parse(rcvd.data)
    IN (rcvd.seen /\ query.ok)
       => ( outbox # <<>>
              <=> ( query.q.qtype = 1
                      /\ DropLast(LabelStr(query.q.qname)) = NAME ) )

C4_Witness ==
    /\ rcvd.seen
    /\ parse(rcvd.data).ok
    /\ parse(rcvd.data).q.qtype = 1
    /\ parse(rcvd.data).q.qname = <<<<"a">>, <<"c">>>>
    /\ NAME = <<"a", ".", "b">>
    /\ outbox = <<>>

(* C5: a GET of a path other than the health-check path whose content key  *)
(* is in the cache ends with status 200 and the decompressed entry as its  *)
(* body, makes no request to the origin, and on a path of one segment      *)
(* writes nothing else.                                                    *)
C5_HitServesEntry ==
    IsHit =>
      /\ req.sent # <<>>
      /\ Last(req.sent) = Response(200, zlib_decompress(CACHE[ContentKey(req.path)]))
      /\ req.origin = <<>>
      /\ ~req.raised
      /\ (Len(Split(req.path, "/")) <= 2 => Len(req.sent) = 1)

C5_Witness ==
    /\ IsHit
    /\ req.path = <<"/", "D">>
    /\ CACHE[<<"D">>] = zlib_compress(MixedBody)
    /\ req.sent = <<Response(200, MixedBody)>>

(* C6: a GET whose content key is not in the cache makes exactly one GET   *)
(* to the origin, for that key; if the origin answers 200 the client gets  *)
(* 200 and the origin's payload as it is, and on any other status it gets  *)
(* 404.                                                                    *)
C6_MissGoesToOrigin ==
    IsMiss =>
      /\ Len(req.origin) = 1
      /\ req.origin[1].key = ContentKey(req.path)
      /\ (~req.outcome.raised /\ req.outcome.status_code = 200)
           => ( /\ req.sent # <<>>
                /\ Last(req.sent) = Response(200, req.outcome.content) )
      /\ (~req.outcome.raised /\ req.outcome.status_code # 200)
           => ( /\ req.sent # <<>>
                /\ Last(req.sent).status = 404 )
      /\ (~req.outcome.raised /\ Len(Split(req.path, "/")) <= 2) => Len(req.sent) = 1

(* the key the budget cut off is asked for afterwards *)
C6_Witness ==
    /\ IsMiss
    /\ stopped
    /\ req.path = <<"/", "C">>
    /\ csv[idx] = <<"C">>
    /\ req.outcome.status_code = 200
    /\ req.sent = <<Response(200, req.outcome.content)>>

C8_FetchFailureSkipsKey ==
    (\E i \in 1..Len(preload) : preload[i].raised)
      => pc \in {"loading", "main", "start", "serving"}

(* C9: no do_GET changes the cache: while requests are served, the keys    *)
(* of the cache and every stored value stay as they are.                   *)
C9_GetLeavesCache == [][pc = "serving" => CACHE' = CACHE]_vars

(* a miss the origin answered with 200, its key still not in the cache *)
C9_Witness ==
    /\ IsMiss
    /\ ~req.outcome.raised
    /\ req.outcome.status_code = 200
    /\ req.path = <<"/", "E">>
    /\ CACHE # EmptyMap

(* C10: the cache is written in one run of the loader only, and a request  *)
(* is handled only after that run has ended (its loop exhausted or left    *)
(* through break).                                                         *)
C10_LoadBeforeServe ==
    /\ [](loadRuns <= 1)
    /\ []( (pc = "serving" \/ req.handled)
             => (loadRuns = 1 /\ (stopped \/ idx > Len(csv))) )
    /\ [][CACHE' # CACHE => (pc = "loading" /\ pc' = "loading")]_vars

C10_Witness ==
    /\ req.handled
    /\ pc = "serving"
    /\ loadRuns = 1
    /\ stopped
    /\ idx = 2
    /\ CACHE # EmptyMap


IsBeacon == req.handled /\ req.path = HEALTH_PATH

IsNested == req.handled /\ req.path # HEALTH_PATH /\ Len(Split(req.path, "/")) > 2

(* C11: a GET of /grading/beacon is answered with 204, whatever the cache  *)
(* holds, without a lookup in the cache and without a GET to the origin.   *)
C11_BeaconAnswers204 ==
    IsBeacon =>
      /\ Len(req.sent) = 1
      /\ req.sent[1].status = 204
      /\ req.origin = <<>>
      /\ ~req.raised
      /\ \A i \in 1..Len(req.steps) : req.steps[i].op \notin {"lookup", "get"}

C11_Witness ==
    /\ IsBeacon
    /\ CACHE # EmptyMap
    /\ req.sent[1].status = 204

(* C12: the response to GET /grading/beacon has an empty body: no body     *)
(* bytes are written after the 204 status and the headers.                 *)
C12_BeaconBodyEmpty ==
    IsBeacon =>
      /\ \A i \in 1..Len(req.sent) : req.sent[i].body = <<>>
      /\ \A i \in 1..Len(req.steps) :
            req.steps[i].op = "write" => req.steps[i].arg = <<>>

(* C13: after a query that does not match (wrong name or type other than   *)
(* 1) the responder is still in its receive loop.                          *)
C13_NonMatchKeepsServing ==
    LET query == parse(rcvd.data)
    IN ( /\ rcvd.seen
         /\ query.ok
         /\ ~(query.q.qtype = 1 /\ DropLast(LabelStr(query.q.qname)) = NAME) )
       => dnsPc = "recv"

(* C14: on a path of more than one segment do_GET first sends 400, before  *)
(* any lookup or GET, and then goes on: it looks the last segment up in    *)
(* the cache and serves the hit or asks the origin.                        *)
C14_ValidateThenContinue ==
    IsNested =>
      /\ Len(req.steps) >= 3
      /\ req.steps[1].op = "send_error"
      /\ req.steps[1].arg = 400
      /\ req.steps[2].op = "lookup"
      /\ req.steps[2].arg = ContentKey(req.path)
      /\ IsHit => req.steps[3].op = "send_response"
      /\ IsMiss => ( /\ req.steps[3].op = "get"
                     /\ req.steps[3].arg.key = ContentKey(req.path) )

C14_Witness ==
    /\ IsNested
    /\ IsHit
    /\ Len(req.sent) = 2
    /\ req.sent[1].status = 400
    /\ req.sent[2].status = 200

(* C15: a do_GET that ends without an origin-communication error has       *)
(* written exactly one response status.                                    *)
C15_OneStatusPerRequest ==
    (req.handled /\ ~req.raised) => Len(req.sent) = 1

(* C16: when the origin GET of a miss fails with a communication error,    *)
(* do_GET raises and has sent neither 200 nor 404; the server goes on      *)
(* serving, the cache is what the loader made it, and the requests after   *)
(* it are answered as usual.                                               *)
C16_OriginErrorPropagates ==
    /\ (IsMiss /\ req.outcome.raised)
         => ( /\ req.raised
              /\ \A i \in 1..Len(req.sent) : req.sent[i].status \notin {200, 404} )
    /\ (req.raised \/ failedBefore)
         => ( /\ pc = "serving"
              /\ DOMAIN CACHE = DOMAIN loaded
              /\ \A k \in DOMAIN CACHE : CACHE[k] = zlib_compress(loaded[k]) )
    /\ (failedBefore /\ IsHit)
         => Last(req.sent) = Response(200, loaded[ContentKey(req.path)])
    /\ (failedBefore /\ IsMiss /\ ~req.outcome.raised /\ req.outcome.status_code = 200)
         => Last(req.sent) = Response(200, req.outcome.content)

(* a request served from the cache after one that raised *)
C16_Witness ==
    /\ failedBefore
    /\ IsHit
    /\ req.path = <<"/", "D">>
    /\ Len(req.sent) = 1
    /\ req.sent[1].status = 200

(* C17: a preload fetch answered with a status other than 200 leaves the   *)
(* cache and its measured size as they were and does not end the load: the *)
(* next row of the list is fetched too.                                    *)
C17_SkipAndContinue ==
    /\ [][ ( /\ pc = "loading"
             /\ Len(preload') = Len(preload) + 1
             /\ ~Last(preload').raised
             /\ Last(preload').status_code # 200 )
           => ( /\ CACHE' = CACHE
                /\ get_cache_size(CACHE') = get_cache_size(CACHE)
                /\ pc' = "loading"
                /\ ~stopped'
                /\ idx' = idx + 1 ) ]_vars
    /\ [](\A i \in 1..Len(preload) :
            ( /\ ~preload[i].raised
              /\ preload[i].status_code # 200
              /\ preload[i].row < Len(csv)
              /\ (idx > preload[i].row + 1 \/ LoadFinished) )
            => \E j \in 1..Len(preload) : preload[j].row = preload[i].row + 1)

C17_Witness ==
    /\ Len(csv) = 2
    /\ Len(preload) = 2
    /\ preload[1].status_code = 404
    /\ preload[2].row = 2
    /\ preload[2].status_code = 200
    /\ DOMAIN CACHE = {csv[2]}

(* C18: every origin fetch of a run, by the loader and by do_GET, goes to  *)
(* the host given with -o.                                                 *)
C18_FetchesGoToConfiguredOrigin ==
    /\ \A i \in 1..Len(preload) : preload[i].url.host = args
    /\ \A i \in 1..Len(req.origin) : req.origin[i].host = args

(* C19: the answer of every reply binds the queried name to the source IP  *)
(* of the query's datagram, and the reply goes to that source address and  *)
(* port.                                                                   *)
C19_AnswerIsSourceAddress ==
    outbox # <<>> =>
      LET query == parse(rcvd.data)
          reply == parse(outbox[1].data)
      IN /\ Len(outbox) = 1
         /\ reply.ok
         /\ Len(reply.rr) = 1
         /\ reply.rr[1].rname = query.q.qname
         /\ reply.rr[1].rdata = rcvd.addr[1]
         /\ outbox[1].to = rcvd.addr

C19_Witness ==
    /\ outbox # <<>>
    /\ rcvd.addr = <<<<192, 168, 1, 7>>, 40000>>
    /\ parse(outbox[1].data).rr[1].rdata = <<192, 168, 1, 7>>
    /\ outbox[1].to = <<<<192, 168, 1, 7>>, 40000>>


(* the objects reachable from the objects of S *)
Children(h, o) ==
    IF h[o].type = "dict"
    THEN {h[o].keys[i] : i \in 1..Len(h[o].keys)} \cup {h[o].vals[i] : i \in 1..Len(h[o].vals)}
    ELSE IF h[o].type = "list" THEN {h[o].items[i] : i \in 1..Len(h[o].items)}
    ELSE {}

RECURSIVE Reachable(_, _)
Reachable(h, S) ==
    LET T == S \cup UNION {Children(h, o) : o \in S}
    IN IF T = S THEN S ELSE Reachable(h, T)

RECURSIVE TotalSize(_, _)
TotalSize(h, S) ==
    IF S = {} THEN 0
    ELSE LET o == CHOOSE o \in S : TRUE
         IN Sizeof(h[o]) + TotalSize(h, S \ {o})

(* C20: get_cache_size of a mapping is the size of the mapping plus the    *)
(* size of every object reachable from it through keys, values and items,  *)
(* each object counted once, also where objects are shared or contain      *)
(* themselves.                                                             *)
C20_EachObjectOnce ==
    measured.done => measured.size = TotalSize(heap, Reachable(heap, {1}))

(* the mapping holds itself and an object that is reachable twice *)
C20_Witness ==
    /\ measured.done
    /\ heap[1] = [type |-> "dict", keys |-> <<2, 3>>, vals |-> <<1, 3>>]
    /\ heap[2] = [type |-> "str", len |-> 1]
    /\ heap[3] = [type |-> "bytes", len |-> 5]
    /\ measured.size = DICT_SMALL + (STR_OVERHEAD + 1) + (BYTES_OVERHEAD + 5)

=============================================================================
